---------------------------- MODULE Spec2Model ----------------------------
(***************************************************************************)
(* State-machine model of OpenVRTrackersModule (yarp-openvr):              *)
(* configure / getPeriod / updateModule / close / resetSeatedPosition,     *)
(* all serialised by m_mutex, driven by a periodic scheduler thread        *)
(* ("main"), the RPC handler thread ("rpc") and a further execution       *)
(* context ("ctl") that calls close (SpecConc) or resetSeatedPosition      *)
(* (SpecDirect); and of the OpenVRCamera device: open / close / getImage   *)
(* against the VR runtime (SpecCamera).                                    *)
(*                                                                         *)
(* Doubles are modelled by integers: a period is held in milliseconds      *)
(* (0.010 s = 10), pose scalars are small integers.                        *)
(***************************************************************************)
EXTENDS Integers, Sequences, FiniteSets, TLC

(***************************************************************************)
(* Bounds of the model                                                     *)
(***************************************************************************)
\* Number of devices the Device Manager may manage at the same time.
MaxDevices == 2
\* Number of times the VR runtime lets the camera device initialize it.
MaxOpens == 2
\* The last frame sequence number the camera stream gets to.
MaxFrame == 3

(***************************************************************************)
(* Program constants (namespace openvr_trackers_module)                    *)
(***************************************************************************)
DefaultPeriod == 10
DefaultTfBaseFrameName == "openVR_origin"

(***************************************************************************)
(* Values of the configuration (yarp::os::Value found in the               *)
(* ResourceFinder): absent, or typed.  A string option is held in s; the   *)
(* vrOrigin strings are held as character sequences in c so that the       *)
(* tolower transform is computed character by character.                   *)
(***************************************************************************)
Absent == [t |-> "absent", n |-> 0, s |-> "", c |-> <<>>]
Int32(v) == [t |-> "int32", n |-> v, s |-> "", c |-> <<>>]
Float64(v) == [t |-> "float64", n |-> v, s |-> "", c |-> <<>>]
Str(v) == [t |-> "string", n |-> 0, s |-> v, c |-> <<>>]
Chars(v) == [t |-> "string", n |-> 0, s |-> "", c |-> v]

Config(period, tfBaseFrameName, vrOrigin) ==
    [period |-> period, tfBaseFrameName |-> tfBaseFrameName,
     vrOrigin |-> vrOrigin]

\* The configurations handed to configure: every option absent, given with
\* the expected type, or given with another type.
Configs ==
    {Config(Absent, Absent, Absent),
     Config(Float64(5), Str("world"), Chars(<<"S", "t", "a", "n", "d", "i", "n", "g">>)),
     Config(Float64(25), Int32(3), Chars(<<"R", "A", "W">>)),
     Config(Int32(2), Str("world"), Chars(<<"s", "i", "d", "e", "w", "a", "y", "s">>)),
     Config(Float64(25), Absent, Chars(<<"s", "e", "a", "t", "e", "d">>)),
     Config(Absent, Str("world"), Int32(1))}

(***************************************************************************)
(* Tracked devices, poses and matrices                                     *)
(***************************************************************************)
TrackedDeviceType == {"HMD", "Controller", "GenericTracker", "Other"}

\* The hardware that may show up, in the order the runtime lists it: a
\* device's serial number and class do not change.
DevicePool ==
    <<[sn |-> "LHR-0A01", type |-> "HMD"],
      [sn |-> "LHR-0B02", type |-> "Controller"],
      [sn |-> "LHR-0C03", type |-> "GenericTracker"],
      [sn |-> "LHB-0D04", type |-> "Other"]>>
Serials == {DevicePool[i].sn : i \in DOMAIN DevicePool}
TrackingUniverseOrigin == {"Seated", "Standing", "Raw"}

\* std::optional<openvr::Pose>: NoPose is std::nullopt.
NoPose == [rotationRowMajor |-> <<>>, position |-> <<>>]
PoseA == [rotationRowMajor |-> <<1, 0, 0, 0, 1, 0, 0, 0, 1>>,
          position |-> <<1, 2, 3>>]
PoseB == [rotationRowMajor |-> <<0, -1, 0, 1, 0, 0, 0, 0, 1>>,
          position |-> <<-4, 5, 6>>]
Poses == {PoseA, PoseB}

Idx == 0..3
EmptyMatrix == <<>>
Zeros4 == [i \in Idx |-> [j \in Idx |-> 0]]
\* yarp::sig::Matrix::eye(): the identity of the matrix's own size.
Eye(M) == [i \in DOMAIN M |-> [j \in DOMAIN M[i] |-> IF i = j THEN 1 ELSE 0]]

Free == "free"
Threads == {"main", "rpc", "ctl"}

VARIABLES
    m_mutex,        \* Free, or the thread holding the lock
    m_period,       \* milliseconds
    m_baseFrame,
    m_driver,       \* PolyDriver: "closed" | "open"
    m_tf,           \* IFrameTransform*: "null" | "valid" | "dangling"
    m_sendBuffer,
    m_rpcPort,      \* [attached, open]
    m_manager,      \* Device Manager: [initialized, origin]
    polled,         \* the device set computePoses() found for this cycle
    pc,             \* position of each execution context
    ret,            \* last call returned to each context: [op, b, n]
    lifecycle,      \* what the scheduler knows: created|running|failed|closed
    rf,             \* the configuration configure is called with
    todo,           \* updateModule: ids of the range-for still to visit
    published,      \* setTransform calls of the current cycle
    prev,           \* memory of the previous cycle: [present, lost, failed]
    request,        \* the RPC request at hand: [calls, inCycle]
    released,       \* connections released so far: [driver, port]
    trace,          \* calls the running body has made to its collaborators
    \* yarp::dev::OpenVRCamera::Impl
    pVRSystem,          \* vr::IVRSystem*: "null" | "valid"
    pVRTrackedCamera,   \* vr::IVRTrackedCamera*: "null" | "valid"
    hTrackedCamera,     \* vr::TrackedCameraHandle_t
    nLastFrameSequence,
    \* the camera's surroundings
    vr,             \* the VR runtime: [inits, shutdowns, acquires, releases,
                    \*                  nFrameSequence]
    image,          \* the frames written to the caller's image since open
    camRet          \* last camera call returned: [op, b, queried, initialized]

vars ==
    <<m_mutex, m_period, m_baseFrame, m_driver, m_tf, m_sendBuffer, m_rpcPort,
      m_manager, polled, pc, ret, lifecycle, rf, todo, published, prev,
      request, released, trace, pVRSystem, pVRTrackedCamera, hTrackedCamera,
      nLastFrameSequence, vr, image, camRet>>

moduleVars ==
    <<m_period, m_baseFrame, m_driver, m_tf, m_sendBuffer, m_rpcPort,
      m_manager>>

\* The state of an OpenVRCamera and of what it talks to.
camVars ==
    <<pVRSystem, pVRTrackedCamera, hTrackedCamera, nLastFrameSequence, vr,
      image, camRet>>

\* Everything of the module and of its surroundings.
trackersVars ==
    <<m_mutex, moduleVars, polled, pc, ret, lifecycle, rf, todo, published,
      prev, request, released, trace>>

NoRet == [op |-> "none", b |-> FALSE, n |-> 0]
Unmanaged == [managed |-> FALSE, pose |-> NoPose]
NoDevices == [sn \in Serials |-> Unmanaged]

(***************************************************************************)
(* OpenVRCamera: the state after construction.  std::make_unique<Impl>()   *)
(* value-initializes Impl, every scalar and pointer member starts at zero. *)
(***************************************************************************)
\* INVALID_TRACKED_CAMERA_HANDLE of openvr.h, the value a zeroed handle has.
INVALID_TRACKED_CAMERA_HANDLE == 0
\* The handle AcquireVideoStreamingService gives out.
StreamingHandle == 1

NoCamRet == [op |-> "none", b |-> FALSE, queried |-> FALSE,
             initialized |-> FALSE]

CameraInit ==
    /\ pVRSystem = "null"
    /\ pVRTrackedCamera = "null"
    /\ hTrackedCamera = INVALID_TRACKED_CAMERA_HANDLE
    /\ nLastFrameSequence = 0
    /\ vr = [inits |-> 0, shutdowns |-> 0, acquires |-> 0, releases |-> 0,
             nFrameSequence |-> 0]
    /\ image = <<>>
    /\ camRet = NoCamRet

Init ==
    /\ m_mutex = Free
    /\ m_period = 0
    /\ m_baseFrame = ""
    /\ m_driver = "closed"
    /\ m_tf = "null"
    /\ m_sendBuffer = EmptyMatrix
    /\ m_rpcPort = [attached |-> FALSE, open |-> FALSE]
    /\ m_manager = [initialized |-> FALSE, origin |-> "Seated"]
    /\ polled = NoDevices
    /\ pc = [t \in Threads |-> "idle"]
    /\ ret = [t \in Threads |-> NoRet]
    /\ lifecycle = "created"
    /\ rf \in Configs
    /\ todo = <<>>
    /\ published = <<>>
    /\ prev = [present |-> {}, lost |-> FALSE, failed |-> FALSE]
    /\ request = [calls |-> 0, inCycle |-> FALSE]
    /\ released = [driver |-> 0, port |-> 0]
    /\ trace = <<>>
    /\ CameraInit

(***************************************************************************)
(* The lock: const auto lock = std::unique_lock(m_mutex) at the top of     *)
(* every entry point; released when the call returns.                      *)
(***************************************************************************)
\* Faulty variant: the lock is taken without waiting for its holder
CanLockAlways(t) == TRUE

CanLock(t) == m_mutex = Free

Call(t, op) ==
    /\ pc[t] = "idle"
    /\ pc' = [pc EXCEPT ![t] = op \o "_lock"]
    /\ ret' = [ret EXCEPT ![t] = NoRet]

Lock(t, op) ==
    /\ pc[t] = op \o "_lock"
    /\ CanLock(t)
    /\ m_mutex' = t
    /\ pc' = [pc EXCEPT ![t] = op \o "_body"]

\* The value a body is about to return, kept until the lock is released.
Result(t, op, b, n) == ret' = [ret EXCEPT ![t] = [op |-> op, b |-> b, n |-> n]]

Return(t, op) ==
    /\ pc[t] = op \o "_ret"
    /\ m_mutex' = Free
    /\ pc' = [pc EXCEPT ![t] = "idle"]

\* A context is executing the body of an entry point.
BodyPcs ==
    {"configure_body", "configure_ret", "getPeriod_body",
     "updateModule_body", "updateModule_loop", "updateModule_ret",
     "close_body", "close_ret", "reset_body", "reset_ret"}
InBody(t) == pc[t] \in BodyPcs
InCycle(t) ==
    pc[t] \in {"updateModule_body", "updateModule_loop", "updateModule_ret"}

(***************************************************************************)
(* Device Manager (openvr::DevicesManager): its code is not part of the    *)
(* sources at hand, it is modelled from its contract.                      *)
(***************************************************************************)
\* initialize(origin): fails when the runtime cannot be reached.
ManagerInitialize(mgr, origin, ok) ==
    IF ok THEN [mgr EXCEPT !.initialized = TRUE, !.origin = origin] ELSE mgr

\* resetSeatedPosition(): fails when uninitialized or when the runtime fails.
ManagerResetSeatedPosition(mgr, ok) == mgr.initialized /\ ok

\* What one poll of the runtime may find: every device of the pool is
\* unmanaged, or managed with an optional pose; at most MaxDevices are
\* managed.
DeviceEntries == {Unmanaged} \cup [managed : {TRUE}, pose : Poses \cup {NoPose}]
Snapshots ==
    {d \in [Serials -> DeviceEntries] :
        Cardinality({sn \in Serials : d[sn].managed}) <= MaxDevices}

\* computePoses(): the device set is replaced by what the poll finds.  It
\* is read only by the cycle that polled, which holds it in polled.
ManagerComputePoses(snapshot) == snapshot

RECURSIVE ManagedFrom(_, _)
ManagedFrom(devs, i) ==
    IF i > Len(DevicePool) THEN <<>>
    ELSE (IF devs[DevicePool[i].sn].managed
          THEN <<DevicePool[i].sn>> ELSE <<>>)
         \o ManagedFrom(devs, i + 1)
\* managedDevices(): the identifiers of the current device set.
ManagerManagedDevices(devs) == ManagedFrom(devs, 1)
\* pose(id)
ManagerPose(devs, sn) == devs[sn].pose
\* type(id)
ManagerType(sn) ==
    (CHOOSE d \in {DevicePool[i] : i \in DOMAIN DevicePool} : d.sn = sn).type

(***************************************************************************)
(* configure                                                               *)
(***************************************************************************)
\* Faulty variant: the period option is not read
PeriodOfDefault(r) == DefaultPeriod

\* rf.check("period") && rf.find("period").isFloat64(), else the default.
PeriodOf(r) ==
    IF r.period.t = "float64" THEN r.period.n ELSE DefaultPeriod

\* rf.check("tfBaseFrameName") && isString(), else the default.
BaseFrameOf(r) ==
    IF r.tfBaseFrameName.t = "string" THEN r.tfBaseFrameName.s
    ELSE DefaultTfBaseFrameName

\* std::tolower on one character.
Upper == <<"A", "B", "C", "D", "E", "F", "G", "H", "I", "J", "K", "L", "M",
           "N", "O", "P", "Q", "R", "S", "T", "U", "V", "W", "X", "Y", "Z">>
Lower == <<"a", "b", "c", "d", "e", "f", "g", "h", "i", "j", "k", "l", "m",
           "n", "o", "p", "q", "r", "s", "t", "u", "v", "w", "x", "y", "z">>
ToLowerChar(ch) ==
    IF \E k \in 1..26 : Upper[k] = ch
    THEN Lower[CHOOSE k \in 1..26 : Upper[k] = ch]
    ELSE ch
\* std::transform(begin, end, begin, tolower)
ToLower(str) == [k \in 1..Len(str) |-> ToLowerChar(str[k])]

\* Faulty variant: the option is compared as it was typed, without tolower
VrOriginOfCaseSensitive(r) ==
    IF r.vrOrigin.t # "string" THEN "Seated"
    ELSE LET v == r.vrOrigin.c IN
         IF v = <<"s", "e", "a", "t", "e", "d">> THEN "Seated"
         ELSE IF v = <<"s", "t", "a", "n", "d", "i", "n", "g">> THEN "Standing"
         ELSE IF v = <<"r", "a", "w">> THEN "Raw"
         ELSE "Seated"

\* The origin selected from the vrOrigin option.
VrOriginOf(r) ==
    IF r.vrOrigin.t # "string" THEN "Seated"
    ELSE LET v == ToLower(r.vrOrigin.c) IN
         IF v = <<"s", "e", "a", "t", "e", "d">> THEN "Seated"
         ELSE IF v = <<"s", "t", "a", "n", "d", "i", "n", "g">> THEN "Standing"
         ELSE IF v = <<"r", "a", "w">> THEN "Raw"
         ELSE "Seated"

\* Faulty variant: the control surface is opened before the Device Manager
\* is initialized
ConfigureStepsPortFirst ==
    [driver |-> 1, view |-> 2, port |-> 3, initialize |-> 4, reset |-> 5,
     none |-> 6]

\* The sub-steps of configure that may fail, in the order of the code; a
\* run of configure fails at one of them or at none (6).
ConfigureSteps ==
    [driver |-> 1, view |-> 2, initialize |-> 3, reset |-> 4, port |-> 5,
     none |-> 6]
FailPoints == {ConfigureSteps[k] : k \in DOMAIN ConfigureSteps}

\* The state configure leaves when it fails at sub-step f (6: at none).
ConfigureEffect(f) ==
    /\ m_period' = PeriodOf(rf)
    /\ m_baseFrame' = BaseFrameOf(rf)
    /\ m_driver' = IF f > ConfigureSteps.driver THEN "open" ELSE m_driver
    /\ m_tf' = IF f > ConfigureSteps.view THEN "valid" ELSE m_tf
    /\ m_sendBuffer' =
           IF f > ConfigureSteps.view THEN Eye(Zeros4) ELSE m_sendBuffer
    /\ m_manager' =
           IF f >= ConfigureSteps.initialize
           THEN ManagerInitialize(m_manager, VrOriginOf(rf),
                                  f > ConfigureSteps.initialize)
           ELSE m_manager
    /\ m_rpcPort' =
           IF f >= ConfigureSteps.port
           THEN [attached |-> TRUE, open |-> f > ConfigureSteps.port]
           ELSE m_rpcPort

\* One call of a body to a collaborator (transform client, Device
\* Manager, RPC port) and whether it succeeded.
CallTo(fn, arg, ok) == [fn |-> fn, arg |-> arg, ok |-> ok]

\* The sub-step configure performs in k-th place.
StepAt(k) ==
    CHOOSE step \in DOMAIN ConfigureSteps : ConfigureSteps[step] = k

\* The calls configure makes when it fails at sub-step f: the sub-steps in
\* their order up to the failing one, which is the last; initialize gets
\* the selected origin.
ConfigureTrace(f) ==
    [k \in 1..(IF f < ConfigureSteps.none THEN f ELSE ConfigureSteps.none - 1)
        |-> CallTo(StepAt(k),
                   IF StepAt(k) = "initialize" THEN VrOriginOf(rf) ELSE "",
                   k < f)]

ConfigureCall ==
    /\ lifecycle = "created"
    /\ Call("main", "configure")
    /\ UNCHANGED <<m_mutex, moduleVars, lifecycle, rf, todo, published,
                   prev, request, released,
                   polled>>
    /\ UNCHANGED trace
    /\ UNCHANGED camVars

ConfigureLock ==
    /\ Lock("main", "configure")
    /\ UNCHANGED <<moduleVars, ret, lifecycle, rf, todo, published, prev,
                   request, released,
                   polled>>
    /\ UNCHANGED trace
    /\ UNCHANGED camVars

ConfigureBody ==
    /\ pc["main"] = "configure_body"
    /\ \E f \in FailPoints :
          /\ ConfigureEffect(f)
          /\ trace' = ConfigureTrace(f)
          /\ Result("main", "configure", f = ConfigureSteps.none, 0)
    /\ pc' = [pc EXCEPT !["main"] = "configure_ret"]
    /\ UNCHANGED <<m_mutex, lifecycle, rf, todo, published, prev, request,
                   released,
                   polled>>
    /\ UNCHANGED camVars

ConfigureReturn ==
    /\ Return("main", "configure")
    /\ lifecycle' = IF ret["main"].b THEN "running" ELSE "failed"
    /\ UNCHANGED <<moduleVars, ret, rf, todo, published, prev, request,
                   released,
                   polled>>
    /\ trace' = <<>>
    /\ UNCHANGED camVars

(***************************************************************************)
(* getPeriod                                                               *)
(***************************************************************************)
GetPeriodCall ==
    /\ lifecycle \in {"running", "closed"}
    /\ Call("main", "getPeriod")
    /\ UNCHANGED <<m_mutex, moduleVars, lifecycle, rf, todo, published,
                   prev, request, released,
                   polled>>
    /\ UNCHANGED trace
    /\ UNCHANGED camVars

GetPeriodLock ==
    /\ Lock("main", "getPeriod")
    /\ UNCHANGED <<moduleVars, ret, lifecycle, rf, todo, published, prev,
                   request, released,
                   polled>>
    /\ UNCHANGED trace
    /\ UNCHANGED camVars

GetPeriodValue == m_period

GetPeriodBody ==
    /\ pc["main"] = "getPeriod_body"
    /\ Result("main", "getPeriod", TRUE, GetPeriodValue)
    /\ m_mutex' = Free
    /\ pc' = [pc EXCEPT !["main"] = "idle"]
    /\ UNCHANGED <<moduleVars, lifecycle, rf, todo, published, prev, request,
                   released,
                   polled>>
    /\ UNCHANGED trace
    /\ UNCHANGED camVars

(***************************************************************************)
(* updateModule                                                            *)
(***************************************************************************)
\* The prefix of the transform name, by device type (switch, default: "").
TfNamePrefix(type) ==
    CASE type = "HMD" -> "/hmd/"
      [] type = "Controller" -> "/controllers/"
      [] type = "GenericTracker" -> "/trackers/"
      [] OTHER -> ""

\* tfNamePrefix + sn
ChildFrame(type, sn) == TfNamePrefix(type) \o sn

\* poseOpt.has_value()
HasValue(poseOpt) == poseOpt # NoPose

\* Faulty variant: setTransform is called after the if, pose or no pose
PublishesAlways(poseOpt) == TRUE

\* The setTransform call sits inside the if on has_value(): a device
\* without a pose is passed over.
Publishes(poseOpt) == HasValue(poseOpt)

\* C arrays are indexed from 0.
At(seq, k) == seq[k + 1]

\* Faulty variant: the translation is written to the bottom row instead of the
\* last column
FillTransformTransposed(M, pose) ==
    [Eye(M) EXCEPT
        ![0][0] = At(pose.rotationRowMajor, 0),
        ![0][1] = At(pose.rotationRowMajor, 1),
        ![0][2] = At(pose.rotationRowMajor, 2),
        ![1][0] = At(pose.rotationRowMajor, 3),
        ![1][1] = At(pose.rotationRowMajor, 4),
        ![1][2] = At(pose.rotationRowMajor, 5),
        ![2][0] = At(pose.rotationRowMajor, 6),
        ![2][1] = At(pose.rotationRowMajor, 7),
        ![2][2] = At(pose.rotationRowMajor, 8),
        ![3][0] = At(pose.position, 0),
        ![3][1] = At(pose.position, 1),
        ![3][2] = At(pose.position, 2)]

\* Faulty variant: the buffer is not reset and only the rotation is written
FillTransformRotationOnly(M, pose) ==
    [M EXCEPT
        ![0][0] = At(pose.rotationRowMajor, 0),
        ![0][1] = At(pose.rotationRowMajor, 1),
        ![0][2] = At(pose.rotationRowMajor, 2),
        ![1][0] = At(pose.rotationRowMajor, 3),
        ![1][1] = At(pose.rotationRowMajor, 4),
        ![1][2] = At(pose.rotationRowMajor, 5),
        ![2][0] = At(pose.rotationRowMajor, 6),
        ![2][1] = At(pose.rotationRowMajor, 7),
        ![2][2] = At(pose.rotationRowMajor, 8)]

\* m_sendBuffer.eye() followed by the twelve assignments from the pose.
FillTransform(M, pose) ==
    [Eye(M) EXCEPT
        ![0][0] = At(pose.rotationRowMajor, 0),
        ![0][1] = At(pose.rotationRowMajor, 1),
        ![0][2] = At(pose.rotationRowMajor, 2),
        ![1][0] = At(pose.rotationRowMajor, 3),
        ![1][1] = At(pose.rotationRowMajor, 4),
        ![1][2] = At(pose.rotationRowMajor, 5),
        ![2][0] = At(pose.rotationRowMajor, 6),
        ![2][1] = At(pose.rotationRowMajor, 7),
        ![2][2] = At(pose.rotationRowMajor, 8),
        ![0][3] = At(pose.position, 0),
        ![1][3] = At(pose.position, 1),
        ![2][3] = At(pose.position, 2)]

\* Faulty variant: the default name is passed instead of the configured one
ParentFrameDefault == DefaultTfBaseFrameName

\* The second argument of setTransform.
ParentFrame == m_baseFrame

\* Faulty variant: a failed setTransform ends the range-for
AfterPublishAbort(rest, ok) == IF ok THEN rest ELSE <<>>

\* The result of setTransform is not looked at: the range-for goes on with
\* the remaining devices.
AfterPublish(rest, ok) == rest

\* The call m_tf->setTransform(child, parent, matrix) for device sn, which
\* answered ok; live tells whether m_tf pointed to an open client.
SetTransformCall(sn, child, parent, matrix, ok) ==
    [sn |-> sn, child |-> child, parent |-> parent, matrix |-> matrix,
     ok |-> ok, live |-> m_tf = "valid"]

\* The managed devices that have a pose.
PresentIds(devs) ==
    {sn \in Serials : devs[sn].managed /\ HasValue(devs[sn].pose)}

\* Faulty variant: the range-for starts without a poll of the runtime
UpdatePrologNoPoll == <<CallTo("managedDevices", "", TRUE)>>

\* computePoses() first, then managedDevices() for the range-for.
UpdateProlog ==
    <<CallTo("computePoses", "", TRUE), CallTo("managedDevices", "", TRUE)>>

\* The Device Manager lookups of one pass of the range-for: pose(sn), and
\* type(sn) inside the if on has_value().
IterLookups(sn, poseOpt) ==
    <<CallTo("pose", sn, TRUE)>>
    \o (IF HasValue(poseOpt) THEN <<CallTo("type", sn, TRUE)>> ELSE <<>>)

UpdateCall ==
    /\ lifecycle = "running"
    /\ Call("main", "updateModule")
    /\ UNCHANGED <<m_mutex, moduleVars, lifecycle, rf, todo, published,
                   prev, request, released,
                   polled>>
    /\ UNCHANGED trace
    /\ UNCHANGED camVars

UpdateLock ==
    /\ Lock("main", "updateModule")
    /\ UNCHANGED <<moduleVars, ret, lifecycle, rf, todo, published, prev,
                   request, released,
                   polled>>
    /\ UNCHANGED trace
    /\ UNCHANGED camVars

\* m_manager.computePoses(), then the range-for takes managedDevices().
UpdateCompute ==
    /\ pc["main"] = "updateModule_body"
    /\ \E snapshot \in Snapshots :
          /\ polled' = ManagerComputePoses(snapshot)
          /\ todo' = ManagerManagedDevices(polled')
    /\ trace' = UpdateProlog
    /\ published' = <<>>
    /\ prev' = [prev EXCEPT
                   !.present = {},
                   !.lost = \E sn \in prev.present :
                               /\ polled'[sn].managed
                               /\ ~HasValue(polled'[sn].pose)]
    /\ pc' = [pc EXCEPT !["main"] = "updateModule_loop"]
    /\ UNCHANGED <<m_mutex, moduleVars, ret, lifecycle, rf, request,
                   released>>
    /\ UNCHANGED camVars

\* One pass of the range-for, through an open transform client.
UpdateIter ==
    /\ pc["main"] = "updateModule_loop"
    /\ todo # <<>>
    /\ LET sn == Head(todo)
           poseOpt == ManagerPose(polled, sn)
       IN  /\ trace' = trace \o IterLookups(sn, poseOpt)
           /\ m_sendBuffer' =
                  IF HasValue(poseOpt)
                  THEN FillTransform(m_sendBuffer, poseOpt)
                  ELSE m_sendBuffer
           /\ IF Publishes(poseOpt)
              THEN /\ m_tf = "valid"
                   /\ \E ok \in BOOLEAN :
                         /\ published' =
                                Append(published,
                                       SetTransformCall(
                                           sn,
                                           ChildFrame(
                                               ManagerType(sn), sn),
                                           ParentFrame, m_sendBuffer', ok))
                         /\ todo' = AfterPublish(Tail(todo), ok)
              ELSE /\ todo' = Tail(todo)
                   /\ UNCHANGED published
    /\ UNCHANGED <<m_mutex, m_period, m_baseFrame, m_driver, m_tf, m_rpcPort,
                   m_manager, pc, ret, lifecycle, rf, prev, request,
                   released,
                   polled>>
    /\ UNCHANGED camVars

\* One pass of the range-for after the transform client was closed: m_tf
\* points to a destroyed device, the call is undefined behaviour.  The
\* process dies, or the call goes through on the dead object.
UpdateIterDangling ==
    /\ pc["main"] = "updateModule_loop"
    /\ todo # <<>>
    /\ HasValue(ManagerPose(polled, Head(todo)))
    /\ m_tf # "valid"
    /\ \E crash \in BOOLEAN :
          IF crash
          THEN /\ pc' = [t \in Threads |-> "dead"]
               /\ UNCHANGED <<m_sendBuffer, published, todo, trace>>
          ELSE LET sn == Head(todo) IN
               /\ trace' = trace \o IterLookups(sn, ManagerPose(polled, sn))
               /\ m_sendBuffer' =
                      FillTransform(m_sendBuffer, ManagerPose(polled, sn))
               /\ \E ok \in BOOLEAN :
                     /\ published' =
                            Append(published,
                                   SetTransformCall(
                                       sn,
                                       ChildFrame(ManagerType(sn),
                                                  sn),
                                       ParentFrame, m_sendBuffer', ok))
                     /\ todo' = AfterPublish(Tail(todo), ok)
               /\ UNCHANGED pc
    /\ UNCHANGED <<m_mutex, m_period, m_baseFrame, m_driver, m_tf, m_rpcPort,
                   m_manager, ret, lifecycle, rf, prev, request, released,
                   polled>>
    /\ UNCHANGED camVars

\* The range-for is over: return true.
UpdateDone ==
    /\ pc["main"] = "updateModule_loop"
    /\ todo = <<>>
    /\ Result("main", "updateModule", TRUE, 0)
    /\ pc' = [pc EXCEPT !["main"] = "updateModule_ret"]
    /\ UNCHANGED <<m_mutex, moduleVars, lifecycle, rf, todo, published, prev,
                   request, released,
                   polled>>
    /\ UNCHANGED trace
    /\ UNCHANGED camVars

UpdateReturn ==
    /\ Return("main", "updateModule")
    /\ prev' = [present |-> PresentIds(polled), lost |-> FALSE,
                failed |-> \E k \in 1..Len(published) : ~published[k].ok]
    /\ published' = <<>>
    /\ polled' = NoDevices
    /\ UNCHANGED <<moduleVars, ret, lifecycle, rf, todo, request, released>>
    /\ trace' = <<>>
    /\ UNCHANGED camVars

(***************************************************************************)
(* close                                                                   *)
(***************************************************************************)
\* Faulty variant: close returns what m_driver.close() returned
CloseReturnValueOfDriver(driverWasOpen) == driverWasOpen

\* close returns true whatever m_driver.close() and m_rpcPort.close() did.
CloseReturnValue(driverWasOpen) == TRUE

CloseCall(t) ==
    /\ IF t = "main" THEN lifecycle \in {"running", "failed", "closed"}
                     ELSE lifecycle = "running"
    /\ Call(t, "close")
    /\ UNCHANGED <<m_mutex, moduleVars, lifecycle, rf, todo, published,
                   prev, request, released,
                   polled>>
    /\ UNCHANGED trace
    /\ UNCHANGED camVars

CloseLock(t) ==
    /\ Lock(t, "close")
    /\ UNCHANGED <<moduleVars, ret, lifecycle, rf, todo, published, prev,
                   request, released,
                   polled>>
    /\ UNCHANGED trace
    /\ UNCHANGED camVars

\* m_driver.close(); m_rpcPort.close(); both do nothing on a closed object.
\* The interface pointer m_tf is left as it is: once the driver it was
\* viewed from is closed, it dangles.
CloseBody(t) ==
    /\ pc[t] = "close_body"
    /\ m_driver' = "closed"
    /\ m_tf' = IF m_driver = "open" /\ m_tf = "valid" THEN "dangling" ELSE m_tf
    /\ m_rpcPort' = [m_rpcPort EXCEPT !.open = FALSE]
    /\ released' =
           [driver |-> released.driver + (IF m_driver = "open" THEN 1 ELSE 0),
            port |-> released.port + (IF m_rpcPort.open THEN 1 ELSE 0)]
    /\ Result(t, "close", CloseReturnValue(m_driver = "open"), 0)
    /\ pc' = [pc EXCEPT ![t] = "close_ret"]
    /\ UNCHANGED <<m_mutex, m_period, m_baseFrame, m_sendBuffer, m_manager,
                   lifecycle, rf, todo, published, prev, request,
                   polled>>
    /\ UNCHANGED trace
    /\ UNCHANGED camVars

CloseReturn(t) ==
    /\ Return(t, "close")
    /\ lifecycle' =
           IF t = "main" /\ lifecycle = "running" THEN "closed" ELSE lifecycle
    /\ UNCHANGED <<moduleVars, ret, rf, todo, published, prev, request,
                   released,
                   polled>>
    /\ trace' = <<>>
    /\ UNCHANGED camVars

(***************************************************************************)
(* resetSeatedPosition, called by the RPC port's handler thread            *)
(***************************************************************************)
\* Faulty variant: a failed reset is tried again
ResetAttemptsRetry(result) == IF result THEN 1 ELSE 2

\* The Device Manager is asked once, whatever it answers.
ResetAttempts(result) == 1

\* Faulty variant: the command reports success whatever the Device Manager
\* answered
ResetReturnValueTrue(result) == TRUE

\* if (!m_manager.resetSeatedPosition()) return false; return true;
ResetReturnValue(result) == result

\* A request arrives on the open RPC port.
ResetCall ==
    /\ m_rpcPort.open
    /\ Call("rpc", "reset")
    /\ request' = [calls |-> 0, inCycle |-> InCycle("main")]
    /\ UNCHANGED <<m_mutex, moduleVars, lifecycle, rf, todo, published,
                   prev, released,
                   polled>>
    /\ UNCHANGED trace
    /\ UNCHANGED camVars

ResetLock ==
    /\ Lock("rpc", "reset")
    /\ UNCHANGED <<moduleVars, ret, lifecycle, rf, todo, published, prev,
                   request, released,
                   polled>>
    /\ UNCHANGED trace
    /\ UNCHANGED camVars

ResetBody ==
    /\ pc["rpc"] = "reset_body"
    /\ \E ok \in BOOLEAN :
          LET result == ManagerResetSeatedPosition(m_manager, ok) IN
          /\ request' =
                 [request EXCEPT !.calls = @ + ResetAttempts(result)]
          /\ trace' = <<CallTo("reset", "", result)>>
          /\ Result("rpc", "reset", ResetReturnValue(result), 0)
    /\ pc' = [pc EXCEPT !["rpc"] = "reset_ret"]
    /\ UNCHANGED <<m_mutex, moduleVars, lifecycle, rf, todo, published, prev,
                   released,
                   polled>>
    /\ UNCHANGED camVars

ResetReturn ==
    /\ Return("rpc", "reset")
    /\ UNCHANGED <<moduleVars, ret, lifecycle, rf, todo, published, prev,
                   request, released,
                   polled>>
    /\ trace' = <<>>
    /\ UNCHANGED camVars

\* resetSeatedPosition called on the module object by another context of
\* the process, whatever the module's life cycle has come to.
DirectResetCall ==
    /\ Call("ctl", "reset")
    /\ UNCHANGED <<m_mutex, moduleVars, lifecycle, rf, todo, published,
                   prev, request, released, polled, trace>>
    /\ UNCHANGED camVars

DirectResetLock ==
    /\ Lock("ctl", "reset")
    /\ UNCHANGED <<moduleVars, ret, lifecycle, rf, todo, published, prev,
                   request, released, polled, trace>>
    /\ UNCHANGED camVars

DirectResetBody ==
    /\ pc["ctl"] = "reset_body"
    /\ \E ok \in BOOLEAN :
          LET result == ManagerResetSeatedPosition(m_manager, ok) IN
          /\ trace' = <<CallTo("reset", "", result)>>
          /\ Result("ctl", "reset", ResetReturnValue(result), 0)
    /\ pc' = [pc EXCEPT !["ctl"] = "reset_ret"]
    /\ UNCHANGED <<m_mutex, moduleVars, lifecycle, rf, todo, published, prev,
                   request, released, polled>>
    /\ UNCHANGED camVars

DirectResetReturn ==
    /\ Return("ctl", "reset")
    /\ trace' = <<>>
    /\ UNCHANGED <<moduleVars, ret, lifecycle, rf, todo, published, prev,
                   request, released, polled>>
    /\ UNCHANGED camVars

(***************************************************************************)
(* OpenVRCamera: open / close / getImage, called one after the other by    *)
(* the owner of the device; the runtime's answers are the inputs.          *)
(***************************************************************************)
\* The steps of open that may fail, in the order of the code; a run of
\* open fails at one of them or at none (7).
OpenSteps ==
    [init |-> 1, interface |-> 2, hasCamera |-> 3, firmware |-> 4,
     frameSize |-> 5, acquire |-> 6, none |-> 7]
OpenFailPoints == {OpenSteps[k] : k \in DOMAIN OpenSteps}

CamRet(op, b, queried, initialized) ==
    [op |-> op, b |-> b, queried |-> queried, initialized |-> initialized]

\* The process has not died in a call of the device.
CameraAlive == camRet.op # "dead"

\* open: every failure is a plain return false, whatever was set up before
\* it.  A failed VR_Init nulls pVRSystem; VRTrackedCamera() overwrites the
\* interface pointer; nLastFrameSequence is zeroed once the frame size is
\* known; the handle is written by AcquireVideoStreamingService only.
CameraOpen ==
    /\ CameraAlive
    /\ \E f \in OpenFailPoints :
          /\ f > OpenSteps.init => vr.inits < MaxOpens
          /\ pVRSystem' = IF f > OpenSteps.init THEN "valid" ELSE "null"
          /\ pVRTrackedCamera' =
                 IF f > OpenSteps.interface THEN "valid"
                 ELSE IF f = OpenSteps.interface THEN "null"
                 ELSE pVRTrackedCamera
          /\ nLastFrameSequence' =
                 IF f > OpenSteps.frameSize THEN 0 ELSE nLastFrameSequence
          /\ image' = IF f > OpenSteps.frameSize THEN <<>> ELSE image
          /\ hTrackedCamera' =
                 IF f > OpenSteps.acquire THEN StreamingHandle
                 ELSE IF f = OpenSteps.acquire
                      THEN INVALID_TRACKED_CAMERA_HANDLE
                 ELSE hTrackedCamera
          /\ vr' = [vr EXCEPT
                       !.inits = @ + (IF f > OpenSteps.init THEN 1 ELSE 0),
                       !.acquires =
                           @ + (IF f > OpenSteps.acquire THEN 1 ELSE 0)]
          /\ camRet' = CamRet("open", f = OpenSteps.none, FALSE,
                              f > OpenSteps.init)
    /\ UNCHANGED trackersVars

\* if (pImpl->hTrackedCamera != INVALID_TRACKED_CAMERA_HANDLE)
HoldsStreamingHandle(h) == h # INVALID_TRACKED_CAMERA_HANDLE

\* close: release the streaming service if a handle is held, shut the
\* runtime down if pVRSystem is set, return true.
CameraClose ==
    /\ CameraAlive
    /\ HoldsStreamingHandle(hTrackedCamera) => pVRTrackedCamera = "valid"
    /\ hTrackedCamera' = INVALID_TRACKED_CAMERA_HANDLE
    /\ pVRSystem' = "null"
    /\ vr' = [vr EXCEPT
                 !.releases =
                     @ + (IF HoldsStreamingHandle(hTrackedCamera)
                          THEN 1 ELSE 0),
                 !.shutdowns = @ + (IF pVRSystem = "valid" THEN 1 ELSE 0)]
    /\ camRet' = CamRet("close", TRUE, FALSE, FALSE)
    /\ UNCHANGED <<pVRTrackedCamera, nLastFrameSequence, image>>
    /\ UNCHANGED trackersVars

\* close with a handle held and the interface pointer null (a later open
\* found no tracked-camera interface): ReleaseVideoStreamingService is
\* called through a null pointer, undefined behaviour.  The process dies,
\* or the call goes through.
CameraCloseNullInterface ==
    /\ CameraAlive
    /\ HoldsStreamingHandle(hTrackedCamera)
    /\ pVRTrackedCamera = "null"
    /\ \E crash \in BOOLEAN :
          IF crash
          THEN /\ camRet' = CamRet("dead", FALSE, FALSE, FALSE)
               /\ UNCHANGED <<hTrackedCamera, pVRSystem, vr>>
          ELSE /\ hTrackedCamera' = INVALID_TRACKED_CAMERA_HANDLE
               /\ pVRSystem' = "null"
               /\ vr' = [vr EXCEPT
                            !.releases = @ + 1,
                            !.shutdowns =
                                @ + (IF pVRSystem = "valid" THEN 1 ELSE 0)]
               /\ camRet' = CamRet("close", TRUE, FALSE, FALSE)
    /\ UNCHANGED <<pVRTrackedCamera, nLastFrameSequence, image>>
    /\ UNCHANGED trackersVars

\* if (!pImpl->pVRTrackedCamera || !pImpl->hTrackedCamera)
NotOpened(p, h) == IF p = "null" THEN TRUE ELSE h = 0

\* Faulty variant: the frame is copied whatever its sequence number
NewFrameAlways(nFrameSequence, last) == TRUE

\* frameHeader.nFrameSequence == pImpl->nLastFrameSequence: no new frame.
NewFrame(nFrameSequence, last) == nFrameSequence # last

\* The frame sequence the stream is at after `arrived` more frames.
FrameAfter(arrived) ==
    IF vr.nFrameSequence + arrived > MaxFrame THEN MaxFrame
    ELSE vr.nFrameSequence + arrived

\* getImage: the guard on pointer and handle, the query of the frame
\* header, the comparison with the last delivered sequence, the copy of
\* the frame (a frame may arrive between the two queries), and only then
\* the update of nLastFrameSequence and the write of the image.
CameraGetImage ==
    /\ CameraAlive
    /\ IF NotOpened(pVRTrackedCamera, hTrackedCamera)
       THEN /\ camRet' = CamRet("getImage", FALSE, FALSE, FALSE)
            /\ UNCHANGED <<nLastFrameSequence, image, vr>>
       ELSE \E headerOk \in BOOLEAN, copyOk \in BOOLEAN, arrived \in {0, 1} :
               LET header == vr.nFrameSequence
                   copied == FrameAfter(arrived)
               IN
               IF ~headerOk
               THEN /\ camRet' = CamRet("getImage", FALSE, TRUE, FALSE)
                    /\ UNCHANGED <<nLastFrameSequence, image, vr>>
               ELSE IF ~NewFrame(header, nLastFrameSequence)
               THEN /\ camRet' = CamRet("getImage", FALSE, TRUE, FALSE)
                    /\ UNCHANGED <<nLastFrameSequence, image, vr>>
               ELSE IF ~copyOk
               THEN /\ camRet' = CamRet("getImage", FALSE, TRUE, FALSE)
                    /\ vr' = [vr EXCEPT !.nFrameSequence = copied]
                    /\ UNCHANGED <<nLastFrameSequence, image>>
               ELSE /\ camRet' = CamRet("getImage", TRUE, TRUE, FALSE)
                    /\ vr' = [vr EXCEPT !.nFrameSequence = copied]
                    /\ nLastFrameSequence' = copied
                    /\ image' = Append(image, copied)
    /\ UNCHANGED <<pVRSystem, pVRTrackedCamera, hTrackedCamera>>
    /\ UNCHANGED trackersVars

\* The camera stream produces its next frame.
FrameArrives ==
    /\ CameraAlive
    /\ vr.nFrameSequence < MaxFrame
    /\ vr' = [vr EXCEPT !.nFrameSequence = @ + 1]
    /\ UNCHANGED <<pVRSystem, pVRTrackedCamera, hTrackedCamera,
                   nLastFrameSequence, image, camRet>>
    /\ UNCHANGED trackersVars

(***************************************************************************)
(* Specifications                                                          *)
(***************************************************************************)
\* The scheduler follows the module's life cycle (configure, then
\* getPeriod/updateModule, then close); RPC requests arrive at any time
\* the port is open.
Next ==
    \/ ConfigureCall \/ ConfigureLock \/ ConfigureBody \/ ConfigureReturn
    \/ GetPeriodCall \/ GetPeriodLock \/ GetPeriodBody
    \/ UpdateCall \/ UpdateLock \/ UpdateCompute \/ UpdateIter
    \/ UpdateDone \/ UpdateReturn
    \/ CloseCall("main") \/ CloseLock("main") \/ CloseBody("main")
    \/ CloseReturn("main")
    \/ ResetCall \/ ResetLock \/ ResetBody \/ ResetReturn

Spec == Init /\ [][Next]_vars

\* As Spec, and a further execution context closes the running module at
\* any time; the scheduler goes on.
CtlClose ==
    \/ CloseCall("ctl") \/ CloseLock("ctl") \/ CloseBody("ctl")
    \/ CloseReturn("ctl")

NextConc == Next \/ CtlClose \/ UpdateIterDangling

DefaultConfig == Config(Absent, Absent, Absent)
InitDefault == Init /\ rf = DefaultConfig

SpecConc == InitDefault /\ [][NextConc]_vars

\* As Spec, and a further execution context calls resetSeatedPosition on
\* the module object at any time, before configure and after close too.
CtlReset ==
    \/ DirectResetCall \/ DirectResetLock \/ DirectResetBody
    \/ DirectResetReturn

NextDirect == Next \/ CtlReset

SpecDirect == InitDefault /\ [][NextDirect]_vars

\* Every entry point runs to completion once it holds the lock, and the
\* RPC handler gets the lock if it is free again and again.
Progress ==
    \/ ConfigureBody \/ ConfigureReturn \/ GetPeriodBody
    \/ UpdateCompute \/ UpdateIter \/ UpdateDone \/ UpdateReturn
    \/ CloseBody("main") \/ CloseReturn("main")
    \/ ResetBody \/ ResetReturn

Fairness == WF_vars(Progress) /\ SF_vars(ResetLock)

SpecFair == InitDefault /\ [][Next]_vars /\ Fairness

\* The camera device alone: any sequence of open, getImage and close
\* calls while the stream goes on.
CameraNext ==
    \/ CameraOpen \/ CameraClose \/ CameraCloseNullInterface
    \/ CameraGetImage \/ FrameArrives

SpecCamera == InitDefault /\ [][CameraNext]_vars

(***************************************************************************)
(* Properties                                                              *)
(***************************************************************************)
\* The setTransform calls of the current cycle made for device sn.
CallsFor(sn) == {k \in 1..Len(published) : published[k].sn = sn}

\* The range-for of the current cycle has visited every device.
CycleOver ==
    \/ pc["main"] = "updateModule_loop" /\ todo = <<>>
    \/ pc["main"] = "updateModule_ret"

\* The 4x4 homogeneous matrix of a pose, written out cell by cell.
MatrixOfPose(pose) ==
    LET r == pose.rotationRowMajor
        p == pose.position
        rows == <<<<r[1], r[2], r[3], p[1]>>,
                  <<r[4], r[5], r[6], p[2]>>,
                  <<r[7], r[8], r[9], p[3]>>,
                  <<0, 0, 0, 1>>>>
    IN  [i \in Idx |-> [j \in Idx |-> rows[i + 1][j + 1]]]

\* C1: mutual exclusion.  At most one execution context is inside the body
\* of configure, getPeriod, updateModule, close or resetSeatedPosition, and
\* that context holds m_mutex; so neither a reset nor a close of another
\* context runs inside an update cycle, and the transform client is open
\* during the whole of a cycle that started with it open.
C1_MutualExclusion ==
    /\ Cardinality({t \in Threads : InBody(t)}) <= 1
    /\ \A t \in Threads : InBody(t) => m_mutex = t
    /\ InCycle("main") =>
          /\ pc["rpc"] \notin {"reset_body", "reset_ret"}
          /\ pc["ctl"] \notin {"close_body", "close_ret"}

\* C1 witness: a cycle has published a transform and still has a device to
\* visit while a close of another context and an RPC reset both wait for
\* the lock.
C1_Witness ==
    /\ pc["main"] = "updateModule_loop"
    /\ published # <<>>
    /\ todo # <<>>
    /\ pc["ctl"] = "close_lock"
    /\ pc["rpc"] = "reset_lock"
    /\ m_driver = "open"

\* C2: in every cycle no setTransform call is made for a managed device
\* whose pose is absent, and updateModule returns true all the same.
C2_AbsentPoseIsSkipped ==
    /\ \A sn \in Serials :
          (polled[sn].managed /\ ManagerPose(polled, sn) = NoPose)
              => CallsFor(sn) = {}
    /\ ret["main"].op = "updateModule" => ret["main"].b

\* C2 witness: a cycle is over and returns true; a device that had a pose
\* in the previous cycle is managed without one, nothing was published for
\* the devices without a pose, something was for another device.
C2_Witness ==
    /\ pc["main"] = "updateModule_ret"
    /\ ret["main"].b
    /\ prev.lost
    /\ \E sn \in Serials :
          /\ polled[sn].managed
          /\ ManagerPose(polled, sn) = NoPose
          /\ CallsFor(sn) = {}
    /\ published # <<>>

\* C3: in every cycle each managed device with a pose gets exactly one
\* setTransform call (never more than one while the cycle runs), with the
\* child frame derived from its type and id, the configured base frame as
\* parent and the matrix of its pose; no other id gets a call.
C3_OnePublishPerPresentDevice ==
    /\ \A sn \in Serials :
          /\ Cardinality(CallsFor(sn)) <= 1
          /\ sn \notin PresentIds(polled) => CallsFor(sn) = {}
          /\ (CycleOver /\ sn \in PresentIds(polled))
                => Cardinality(CallsFor(sn)) = 1
    /\ \A k \in 1..Len(published) :
          LET c == published[k] IN
          /\ c.sn \in Serials
          /\ c.child = ChildFrame(ManagerType(c.sn), c.sn)
          /\ c.parent = BaseFrameOf(rf)
          /\ c.matrix = MatrixOfPose(ManagerPose(polled, c.sn))

\* C3 witness: the scenario of the specification, one HMD with identity
\* rotation and translation (1,2,3), beside an unmanaged and an untracked
\* device, under a configured base frame name.
C3_Witness ==
    /\ CycleOver
    /\ rf.tfBaseFrameName = Str("world")
    /\ ManagerPose(polled, "LHR-0A01") = PoseA
    /\ ~polled["LHR-0C03"].managed
    /\ polled["LHR-0B02"].managed
    /\ ManagerPose(polled, "LHR-0B02") = NoPose
    /\ Len(published) = 1
    /\ published[1].child = "/hmd/LHR-0A01"
    /\ published[1].parent = "world"
    /\ published[1].matrix[0] = [j \in Idx |-> IF j = 0 THEN 1 ELSE IF j = 3 THEN 1 ELSE 0]
    /\ published[1].matrix[1][3] = 2
    /\ published[1].matrix[2][3] = 3

\* C4: the matrix of every setTransform call has the bottom row [0,0,0,1],
\* the only cells outside the rotation block and the translation column.
C4_BottomRowIsIdentity ==
    \A k \in 1..Len(published) :
        /\ DOMAIN published[k].matrix = Idx
        /\ published[k].matrix[3] = [j \in Idx |-> IF j = 3 THEN 1 ELSE 0]

\* C4 witness: two devices with different poses were published in one
\* cycle, the send buffer being reused.
C4_Witness ==
    /\ Len(published) = 2
    /\ published[1].matrix = MatrixOfPose(PoseB)
    /\ published[2].matrix = MatrixOfPose(PoseA)

\* The transform name the specification gives to a device.
DocumentedName(type, sn) ==
    CASE type = "HMD" -> "/hmd/" \o sn
      [] type = "Controller" -> "/controllers/" \o sn
      [] type = "GenericTracker" -> "/trackers/" \o sn
      [] OTHER -> "/" \o sn

\* C5: the child frame published for a device is /hmd/<id>,
\* /controllers/<id>, /trackers/<id> by its type, and /<id> for any other
\* type.
C5_ChildFrameNames ==
    \A k \in 1..Len(published) :
        published[k].child =
            DocumentedName(ManagerType(published[k].sn),
                           published[k].sn)

C7_FailedConfigureReleasesAll ==
    (ret["main"].op = "configure" /\ ~ret["main"].b) =>
        /\ m_driver = "closed"
        /\ ~m_manager.initialized
        /\ ~m_rpcPort.attached
        /\ ~m_rpcPort.open
        /\ lifecycle # "running"

\* C8: a failed setTransform drops no device: while the range-for runs,
\* every managed device with a pose has its call or is still to be
\* visited; at its end all have their call and updateModule returns true,
\* also in the cycle after one with a failed call.
C8_PublishFailureIsContained ==
    /\ InCycle("main") /\ pc["main"] # "updateModule_body" =>
          \A sn \in PresentIds(polled) :
              \/ CallsFor(sn) # {}
              \/ \E k \in 1..Len(todo) : todo[k] = sn
    /\ pc["main"] = "updateModule_ret" =>
          /\ ret["main"].op = "updateModule" /\ ret["main"].b
          /\ \A sn \in PresentIds(polled) : CallsFor(sn) # {}

\* C8 witness: in the cycle after one with a failed call, the first
\* setTransform failed, the next device was published, and the cycle
\* returns true.
C8_Witness ==
    /\ pc["main"] = "updateModule_ret"
    /\ prev.failed
    /\ Len(published) = 2
    /\ ~published[1].ok
    /\ published[2].ok
    /\ ret["main"].b

Closed == lifecycle = "closed"

\* C10: close on a closed module returns true and changes nothing of the
\* module; the transform client and the control surface are each released
\* once.
C10_CloseIsIdempotent ==
    /\ [][(Closed /\ pc["main"] = "close_body" /\ pc'["main"] = "close_ret")
             => /\ moduleVars' = moduleVars
                /\ released' = released
                /\ ret'["main"].b]_vars
    /\ [](released.driver <= 1 /\ released.port <= 1)
    /\ [](Closed => (m_driver = "closed" /\ ~m_rpcPort.open
                     /\ released.driver = 1 /\ released.port = 1))

\* C10 witness: a second close has run on the closed module.
C10_Witness ==
    /\ Closed
    /\ pc["main"] = "close_ret"
    /\ ret["main"].op = "close" /\ ret["main"].b
    /\ released = [driver |-> 1, port |-> 1]

\* A body of resetSeatedPosition runs, in the RPC handler or in another
\* context.
ResetRuns ==
    \E t \in {"rpc", "ctl"} : pc[t] = "reset_body" /\ pc'[t] = "reset_ret"

\* C11: resetSeatedPosition asks the Device Manager once and returns
\* exactly its answer, which is failure while the Device Manager is
\* uninitialized; the call changes nothing of the module (period, base
\* frame, transform client, send buffer, control surface) nor of its life
\* cycle, so a failure leaves a Running module Running.
C11_ResetReportsManagerResult ==
    /\ [][ResetRuns => (moduleVars' = moduleVars /\ lifecycle' = lifecycle)]_vars
    /\ [](\A t \in Threads :
             pc[t] = "reset_ret" =>
                /\ Len(trace) = 1
                /\ trace[1].fn = "reset"
                /\ ret[t].op = "reset"
                /\ ret[t].b = trace[1].ok
                /\ ~m_manager.initialized => ~ret[t].b)

\* C11 witness: resetSeatedPosition was called before configure, with the
\* Device Manager uninitialized, and is about to return failure.
C11_Witness ==
    /\ pc["ctl"] = "reset_ret"
    /\ lifecycle = "created"
    /\ ~m_manager.initialized
    /\ m_tf = "null"
    /\ ret["ctl"].op = "reset"
    /\ ~ret["ctl"].b

\* Two characters are the same letter, whatever their case.
SameLetter(a, b) == a = b \/ \E k \in 1..26 : {a, b} = {Upper[k], Lower[k]}
EqualsIgnoreCase(str, word) ==
    /\ Len(str) = Len(word)
    /\ \A k \in 1..Len(str) : SameLetter(str[k], word[k])

\* The origin the specification selects for a configuration.
DocumentedOrigin(r) ==
    IF r.vrOrigin.t # "string" THEN "Seated"
    ELSE IF EqualsIgnoreCase(r.vrOrigin.c,
                             <<"s", "t", "a", "n", "d", "i", "n", "g">>)
         THEN "Standing"
    ELSE IF EqualsIgnoreCase(r.vrOrigin.c, <<"r", "a", "w">>) THEN "Raw"
    ELSE "Seated"

\* The calls of the running body to fn, by their place in trace.
CallsTo(fn) == {k \in 1..Len(trace) : trace[k].fn = fn}

\* C12: the origin handed to the Device Manager's initialize, and held by
\* it once initialized, is Standing or Raw when the vrOrigin option spells
\* that word in any case, and Seated for "seated", for any other string
\* and for a missing option; configure fails only when one of its
\* sub-steps failed, never because of the option's value.
C12_OriginSelection ==
    /\ pc["main"] = "configure_ret" =>
          /\ \A k \in CallsTo("initialize") :
                trace[k].arg = DocumentedOrigin(rf)
          /\ ret["main"].b <=> \A k \in 1..Len(trace) : trace[k].ok
    /\ m_manager.initialized => m_manager.origin = DocumentedOrigin(rf)

\* C12 witness: the scenario of the specification, vrOrigin "sideways":
\* configure succeeds and the Device Manager was initialized with Seated.
C12_Witness ==
    /\ pc["main"] = "configure_ret"
    /\ rf.vrOrigin = Chars(<<"s", "i", "d", "e", "w", "a", "y", "s">>)
    /\ ret["main"].b
    /\ m_manager.initialized
    /\ m_manager.origin = "Seated"
    /\ \E k \in CallsTo("initialize") : trace[k].arg = "Seated"

\* C14: every cell of the rotation block and of the translation column of
\* a published matrix comes from the pose the device has in the current
\* cycle, whatever the send buffer held before.
C14_MatrixFromCurrentPoseOnly ==
    \A k \in 1..Len(published) :
        LET matrix == published[k].matrix
            pose == ManagerPose(polled, published[k].sn)
        IN  /\ HasValue(pose)
            /\ \A i \in 0..2 :
                  /\ \A j \in 0..2 :
                        matrix[i][j] = pose.rotationRowMajor[3 * i + j + 1]
                  /\ matrix[i][3] = pose.position[i + 1]

\* C14 witness: after an earlier cycle that published (one of its calls
\* failed), a device is published after another device of the same cycle,
\* and the two poses differ in rotation and in translation.
C14_Witness ==
    /\ Len(published) = 2
    /\ prev.failed
    /\ ManagerPose(polled, published[1].sn) = PoseA
    /\ ManagerPose(polled, published[2].sn) = PoseB
    /\ m_sendBuffer = published[2].matrix
    /\ published[1].matrix # published[2].matrix

\* C15: every setTransform call goes through a transform client that
\* configure has opened and no close has released; no call is made on a
\* released client, which would crash the process or run on a destroyed
\* object.
C15_PublishOnlyWhileRunning ==
    /\ \A k \in 1..Len(published) : published[k].live
    /\ \A t \in Threads : pc[t] # "dead"

\* The order the specification gives to the sub-steps of configure.
DocumentedOrder == <<"driver", "initialize", "reset", "port">>

\* The documented sub-steps among the calls of trace, in the order made.
DocumentedCalls ==
    SelectSeq(trace,
              LAMBDA c : \E k \in 1..Len(DocumentedOrder) :
                             c.fn = DocumentedOrder[k])

\* C16: a successful configure has opened the transform client,
\* initialized the Device Manager, reset the seated position and opened
\* the control surface, in this order and each once; in any configure the
\* reset is called at most once and only after initialize succeeded, and
\* the control surface is opened only after every earlier sub-step
\* succeeded; so the control surface is open, and an RPC reset at hand,
\* only with the Device Manager initialized.
C16_ConfigureOrder ==
    /\ pc["main"] = "configure_ret" =>
          /\ ret["main"].b =>
                /\ [k \in 1..Len(DocumentedCalls) |-> DocumentedCalls[k].fn]
                       = DocumentedOrder
                /\ \A k \in 1..Len(trace) : trace[k].ok
          /\ Cardinality(CallsTo("reset")) <= 1
          /\ \A k \in CallsTo("reset") :
                \E i \in CallsTo("initialize") : i < k /\ trace[i].ok
          /\ \A k \in CallsTo("port") :
                /\ \A i \in 1..(k - 1) : trace[i].ok
                /\ \E i \in CallsTo("reset") : i < k
                /\ \E i \in CallsTo("driver") : i < k
    /\ m_rpcPort.open => m_manager.initialized
    /\ pc["rpc"] # "idle" => m_manager.initialized

\* C16 witness: configure has made all its sub-steps and returns true with
\* the control surface open.
C16_Witness ==
    /\ pc["main"] = "configure_ret"
    /\ ret["main"].b
    /\ Cardinality(CallsTo("reset")) = 1
    /\ trace[Len(trace)].fn = "port"
    /\ m_rpcPort.open

\* The identifiers managedDevices() returned in the current cycle.
ManagedIds == {sn \in Serials : polled[sn].managed}

\* C17: in an update cycle computePoses() is the first call to the Device
\* Manager and is made once; managedDevices(), pose(id) and type(id) come
\* after it, and pose(id) and type(id) are called only for identifiers
\* that managedDevices() returned in this cycle.
C17_ComputePosesFirst ==
    /\ pc["main"] = "updateModule_body" => trace = <<>>
    /\ (InCycle("main") /\ pc["main"] # "updateModule_body") =>
          /\ trace # <<>>
          /\ trace[1].fn = "computePoses"
          /\ Cardinality(CallsTo("computePoses")) = 1
          /\ \A k \in CallsTo("managedDevices") \cup CallsTo("pose")
                         \cup CallsTo("type") : k > 1
          /\ \A k \in CallsTo("pose") \cup CallsTo("type") :
                trace[k].arg \in ManagedIds

\* C17 witness: a cycle is over in which one device had its type looked up
\* and another, managed without a pose, had not.
C17_Witness ==
    /\ pc["main"] = "updateModule_ret"
    /\ Len(trace) = 5
    /\ Cardinality(CallsTo("type")) = 1
    /\ Cardinality(CallsTo("pose")) = 2
    /\ Cardinality(ManagedIds) = 2

\* C13: when open returns failure after it has initialized the VR runtime,
\* the runtime has been shut down again (pVRSystem is null, every VR_Init
\* has its VR_Shutdown) and no streaming handle is held.
C13_FailedOpenReleasesRuntime ==
    (camRet.op = "open" /\ ~camRet.b /\ camRet.initialized) =>
        /\ pVRSystem = "null"
        /\ vr.shutdowns = vr.inits
        /\ hTrackedCamera = INVALID_TRACKED_CAMERA_HANDLE

\* No element occurs twice in seq.
NoRepeat(seq) ==
    \A i \in 1..Len(seq) : \A j \in 1..Len(seq) : i # j => seq[i] # seq[j]

\* C18: getImage writes the image only when it returns true, and then the
\* frame written is the stream's current one, differs from the sequence
\* recorded before the call and becomes the recorded one; a getImage that
\* returns false leaves the recorded sequence and the image as they were;
\* the recorded sequence changes in no other way but its reset by open; so
\* no frame is written twice to the image.
C18_EachFrameAtMostOnce ==
    /\ [](NoRepeat(image))
    /\ []((camRet.op = "getImage" /\ camRet.b) =>
             (image # <<>> /\ nLastFrameSequence = image[Len(image)]))
    /\ [][(image' # image /\ camRet'.op = "getImage") =>
             /\ camRet'.b
             /\ \E f \in 0..MaxFrame :
                   /\ image' = Append(image, f)
                   /\ f # nLastFrameSequence
                   /\ f = vr'.nFrameSequence
                   /\ nLastFrameSequence' = f]_vars
    /\ [][(camRet'.op = "getImage" /\ ~camRet'.b) =>
             (image' = image /\ nLastFrameSequence' = nLastFrameSequence)]_vars
    /\ [][nLastFrameSequence' # nLastFrameSequence =>
             \/ camRet'.op = "open" /\ nLastFrameSequence' = 0
             \/ camRet'.op = "getImage" /\ camRet'.b]_vars

\* C18 witness: two frames were delivered, and a further getImage asked the
\* runtime, found the sequence it had recorded and returned false.
C18_Witness ==
    /\ Len(image) = 2
    /\ camRet = CamRet("getImage", FALSE, TRUE, FALSE)
    /\ vr.nFrameSequence = nLastFrameSequence
    /\ nLastFrameSequence = image[2]

\* C19: whatever calls of open, getImage and close came before, a call of
\* close returns (the process does not die in it) and returns true with
\* the streaming handle invalid and the runtime pointer null, and the
\* streaming service is never released, nor the runtime shut down, more
\* often than it was acquired.
C19_CloseFromAnySequence ==
    /\ CameraAlive
    /\ camRet.op = "close" =>
          /\ camRet.b
          /\ hTrackedCamera = INVALID_TRACKED_CAMERA_HANDLE
          /\ pVRSystem = "null"
    /\ vr.releases <= vr.acquires
    /\ vr.shutdowns <= vr.inits

=============================================================================
